---------------------------- MODULE Spec2Model ----------------------------
(* A model of mcp_server.py: the Kali MCP bridge.                          *)
(*                                                                         *)
(* main() builds one KaliToolsClient, probes the remote service once with  *)
(* check_health(), and then serves three tools (nmap_scan,                 *)
(* execute_command, server_health).  Every tool maps to one safe_get or    *)
(* safe_post call, which turns any exception of the HTTP round trip into   *)
(* the envelope {"error": str(e), "success": False}.                       *)
(*                                                                         *)
(* Python strings are sequences of tokens (a token is a word or a single   *)
(* punctuation character), so that rstrip, concatenation, "in" and the     *)
(* JSON decoder work on the text and not on opaque names.  Python values   *)
(* are records [type, text, fields, items].                                *)
EXTENDS Naturals, Sequences, FiniteSets, TLC

VARIABLES
    pc,          \* main()'s position
    args,        \* the parsed command line (args.server, args.timeout)
    kali_client, \* the KaliToolsClient built by main()
    health,      \* main()'s local `health`
    probes,      \* how many times main() has called check_health()
    probe,       \* the branch the startup check_health() took
    log,         \* the records written to the logger
    inv,         \* per thread of control: the call in progress and what it sent
    returned     \* the last value a call handed back to its caller

vars == <<pc, args, kali_client, health, probes, probe, log, inv, returned>>

-----------------------------------------------------------------------------
(* Bounds *)

\* Tool invocations in progress at once, when the runtime delivers them
\* concurrently.
NumThreads == 2

-----------------------------------------------------------------------------
(* Python values *)

NoFields == [k \in {} |-> 0]

PyStr(s) == [type |-> "str", text |-> s, fields |-> NoFields, items |-> <<>>]

PyInt(tok) == [type |-> "int", text |-> <<tok>>, fields |-> NoFields, items |-> <<>>]

PyTrue == [type |-> "bool", text |-> <<"True">>, fields |-> NoFields, items |-> <<>>]

PyFalse == [type |-> "bool", text |-> <<"False">>, fields |-> NoFields, items |-> <<>>]

PyNone == [type |-> "NoneType", text |-> <<"None">>, fields |-> NoFields, items |-> <<>>]

PyList(xs) == [type |-> "list", text |-> <<>>, fields |-> NoFields, items |-> xs]

PyDict(f) == [type |-> "dict", text |-> <<>>, fields |-> f, items |-> <<>>]

\* A local that has not been assigned yet.
Unbound == [type |-> "unbound", text |-> <<>>, fields |-> NoFields, items |-> <<>>]

\* s occurs in t as a contiguous run of tokens (Python's `s in t` on str).
IsSubstring(s, t) ==
    \E i \in 0..Len(t) :
        /\ i + Len(s) <= Len(t)
        /\ \A j \in 1..Len(s) : t[i + j] = s[j]

\* The outcome of evaluating  key in v : [raises, value].
PyContains(key, v) ==
    CASE v.type = "dict" -> [raises |-> FALSE, value |-> key \in DOMAIN v.fields]
      [] v.type = "list" ->
            [raises |-> FALSE,
             value |-> \E i \in 1..Len(v.items) : v.items[i] = PyStr(<<key>>)]
      [] v.type = "str" -> [raises |-> FALSE, value |-> IsSubstring(<<key>>, v.text)]
      [] OTHER -> [raises |-> TRUE, value |-> FALSE]

\* The outcome of evaluating  v[key]  for a str key : [raises, value].
PyGetItem(v, key) ==
    IF v.type = "dict" /\ key \in DOMAIN v.fields
    THEN [raises |-> FALSE, value |-> v.fields[key]]
    ELSE [raises |-> TRUE, value |-> PyNone]

-----------------------------------------------------------------------------
(* response.json(): the JSON decoder, on the tokens of the body.  Bodies    *)
(* are scalars, arrays of scalars and objects with one-word keys and       *)
(* scalar values; anything else is reported as a decode error.             *)

Q == "\""

Digits == {"0", "7"}

QuotesBefore(toks, i) == Cardinality({j \in 1..(i - 1) : toks[j] = Q})

\* Position i is the quote that opens a string / closes one / lies inside one.
Opens(toks, i) == toks[i] = Q /\ QuotesBefore(toks, i) % 2 = 0

Closes(toks, i) == toks[i] = Q /\ QuotesBefore(toks, i) % 2 = 1

Inside(toks, i) == toks[i] # Q /\ QuotesBefore(toks, i) % 2 = 1

\* The positions at which a lexeme starts: a string literal is one lexeme.
LexStarts(toks) == {i \in 1..Len(toks) : ~Inside(toks, i) /\ ~Closes(toks, i)}

Min(S) == CHOOSE j \in S : \A k \in S : j <= k

\* The k-th smallest element of S.
Nth(S, k) == CHOOSE i \in S : Cardinality({j \in S : j < i}) = k - 1

\* The lexeme starting at position i: a string with its text, or one token.
LexAt(toks, i) ==
    IF Opens(toks, i)
    THEN [kind |-> "str",
          text |-> SubSeq(toks, i + 1, Min({j \in (i + 1)..Len(toks) : toks[j] = Q}) - 1)]
    ELSE [kind |-> "tok", text |-> <<toks[i]>>]

LexFrom(toks, starts) == [k \in 1..Cardinality(starts) |-> LexAt(toks, Nth(starts, k))]

\* The lexemes of the body, in order; needs every string to be closed.
Lex(toks) == LexFrom(toks, LexStarts(toks))

IsPunct(lx, ch) == lx.kind = "tok" /\ lx.text = <<ch>>

IsScalar(lx) ==
    \/ lx.kind = "str"
    \/ lx.kind = "tok" /\ lx.text[1] \in {"null", "true", "false"} \cup Digits

ScalarValue(lx) ==
    CASE lx.kind = "str" -> PyStr(lx.text)
      [] lx.text = <<"null">> -> PyNone
      [] lx.text = <<"true">> -> PyTrue
      [] lx.text = <<"false">> -> PyFalse
      [] OTHER -> PyInt(lx.text[1])

\* "[" scalar ("," scalar)* "]"  or  "[" "]"
IsArray(L) ==
    LET n == Len(L) IN
    /\ n >= 2 /\ IsPunct(L[1], "[") /\ IsPunct(L[n], "]")
    /\ n = 2 \/ (/\ n % 2 = 1
                 /\ \A k \in 2..(n - 1) :
                        IF k % 2 = 0 THEN IsScalar(L[k]) ELSE IsPunct(L[k], ","))

ArrayValue(L) == PyList([k \in 1..((Len(L) - 1) \div 2) |-> ScalarValue(L[2 * k])])

\* "{" key ":" scalar ("," key ":" scalar)* "}"  or  "{" "}"
IsObject(L) ==
    LET n == Len(L) IN
    /\ n >= 2 /\ IsPunct(L[1], "{") /\ IsPunct(L[n], "}")
    /\ n = 2 \/ (/\ n % 4 = 1
                 /\ \A k \in 2..(n - 1) :
                        CASE k % 4 = 2 -> L[k].kind = "str" /\ Len(L[k].text) = 1
                          [] k % 4 = 3 -> IsPunct(L[k], ":")
                          [] k % 4 = 0 -> IsScalar(L[k])
                          [] OTHER -> IsPunct(L[k], ","))

\* A repeated key keeps its last value.
ObjectValue(L) ==
    LET members == 1..((Len(L) - 1) \div 4)
        key(m) == L[4 * m - 2].text[1]
        last(k) == CHOOSE m \in members :
                       key(m) = k /\ \A m2 \in members : key(m2) = k => m2 <= m
    IN  PyDict([k \in {key(m) : m \in members} |-> ScalarValue(L[4 * last(k)])])

\* The value the lexemes L spell, or a decode error.
ParseLexemes(L) ==
    CASE Len(L) = 1 /\ IsScalar(L[1]) -> [ok |-> TRUE, value |-> ScalarValue(L[1])]
      [] IsArray(L) -> [ok |-> TRUE, value |-> ArrayValue(L)]
      [] IsObject(L) -> [ok |-> TRUE, value |-> ObjectValue(L)]
      [] OTHER -> [ok |-> FALSE, value |-> PyNone]

\* json.loads: [ok, value], the decoded body or a decode error.
JsonLoads(toks) ==
    IF QuotesBefore(toks, Len(toks) + 1) % 2 = 1
    THEN [ok |-> FALSE, value |-> PyNone]
    ELSE ParseLexemes(Lex(toks))

-----------------------------------------------------------------------------
(* The HTTP round trip: what requests.get / requests.post can yield.       *)

NoExc == [type |-> "none", args |-> <<>>]

Raised(type, eargs) == [raised |-> TRUE, exc |-> [type |-> type, args |-> eargs],
                       status |-> 0, body |-> <<>>]

Response(status, body) == [raised |-> FALSE, exc |-> NoExc,
                           status |-> status, body |-> body]

\* The round trip has not ended yet.
Pending == [raised |-> FALSE, exc |-> NoExc, status |-> 0, body |-> <<>>]

\* str(e): the single argument of the exception, "" when it has none.
ExcStr(e) == IF Len(e.args) = 0 THEN <<>> ELSE e.args[1]

RaisedOutcomes ==
    { Raised("ConnectionError", << <<"Connection", "refused">> >>),
      Raised("ConnectionError", << <<"Name", "not", "known">> >>),
      Raised("ReadTimeout", << <<"Read", "timed", "out">> >>),
      Raised("MemoryError", <<>>) }

Is2xx(status) == status >= 200 /\ status <= 299

BodyEmpty == <<>>

BodyCut == <<"{", Q, "status", Q, ":">>

BodyOk == <<"{", Q, "status", Q, ":", Q, "ok", Q, "}">>

BodyErr == <<"{", Q, "error", Q, ":", Q, "boom", Q, ",",
             Q, "success", Q, ":", "true", "}">>

BodyList == <<"[", Q, "error", Q, "]">>

BodyStr == <<Q, "disk", "error", Q>>

BodyNum == <<"7">>

BodyNull == <<"null">>

Bodies == {BodyEmpty, BodyCut, BodyOk, BodyErr, BodyList, BodyStr, BodyNum, BodyNull}

\* Every body with status 200, and some with the other statuses.
ResponseOutcomes ==
    { Response(200, b) : b \in Bodies }
    \cup { Response(201, BodyOk), Response(204, BodyEmpty),
           Response(101, BodyOk), Response(304, BodyOk), Response(304, BodyEmpty),
           Response(404, BodyOk), Response(404, BodyEmpty),
           Response(500, BodyErr) }

HttpOutcomes == RaisedOutcomes \cup ResponseOutcomes

\* response.raise_for_status(): [raises, exc].
raise_for_status(http) ==
    IF http.status >= 400 /\ http.status < 500
    THEN [raises |-> TRUE,
          exc |-> [type |-> "HTTPError",
                   args |-> << <<ToString(http.status), "Client", "Error">> >>]]
    ELSE IF http.status >= 500 /\ http.status < 600
    THEN [raises |-> TRUE,
          exc |-> [type |-> "HTTPError",
                   args |-> << <<ToString(http.status), "Server", "Error">> >>]]
    ELSE [raises |-> FALSE, exc |-> NoExc]

\* What response.json() makes of the decoder's answer d: [raises, exc, value].
JsonResult(d) ==
    IF d.ok THEN [raises |-> FALSE, exc |-> NoExc, value |-> d.value]
    ELSE [raises |-> TRUE,
          exc |-> [type |-> "JSONDecodeError", args |-> << <<"Expecting", "value">> >>],
          value |-> PyNone]

\* response.json(): [raises, exc, value].
response_json(http) == JsonResult(JsonLoads(http.body))

-----------------------------------------------------------------------------
(* KaliToolsClient *)

DEFAULT_KALI_SERVER == <<"http://192.168.31.72:5000">>

DEFAULT_REQUEST_TIMEOUT == 300

\* s.rstrip(ch): s without its trailing run of ch.
rstrip(s, ch) ==
    LET keep == CHOOSE k \in 0..Len(s) :
                    /\ k = 0 \/ s[k] # ch
                    /\ \A j \in (k + 1)..Len(s) : s[j] = ch
    IN  SubSeq(s, 1, keep)

\* A constructor that keeps the URL as given.
KaliToolsClient_NoStrip(server_url, timeout) ==
    [server_url |-> server_url, timeout |-> timeout]

\* __init__: the fields of the new object.
KaliToolsClient(server_url, timeout) ==
    [server_url |-> rstrip(server_url, "/"), timeout |-> timeout]

NoClient == [server_url |-> <<>>, timeout |-> 0]

\* A handler that catches the requests library's exceptions only: the
\* others leave the call as a raised fault.
ErrorEnvelope_RequestsOnly(e) ==
    IF e.type \in {"ConnectionError", "ReadTimeout", "HTTPError"}
    THEN [path |-> "except",
          value |-> PyDict([error |-> PyStr(ExcStr(e)), success |-> PyFalse])]
    ELSE [path |-> "raise", value |-> Unbound]

\* except Exception as e: return {"error": str(e), "success": False}
ErrorEnvelope(e) ==
    [path |-> "except",
     value |-> PyDict([error |-> PyStr(ExcStr(e)), success |-> PyFalse])]

\* A return that stamps a decoded object with "success": True.
ReturnJson_Stamped(j) ==
    IF j.raises THEN ErrorEnvelope(j.exc)
    ELSE [path |-> "return",
          value |-> IF j.value.type = "dict"
                    THEN PyDict(("success" :> PyTrue) @@ j.value.fields)
                    ELSE j.value]

\* return response.json(), where the call yields j.
ReturnJson(j) ==
    IF j.raises THEN ErrorEnvelope(j.exc)
    ELSE [path |-> "return", value |-> j.value]

\* The body of the try statement of safe_get and safe_post, once the round
\* trip has ended as http: [path, value].
TryBody(http) ==
    IF http.raised THEN ErrorEnvelope(http.exc)
    ELSE IF raise_for_status(http).raises THEN ErrorEnvelope(raise_for_status(http).exc)
    ELSE ReturnJson(response_json(http))

\* `params or {}`
OrEmptyDict(params) ==
    IF params.type = "NoneType" \/ (params.type = "dict" /\ DOMAIN params.fields = {})
    THEN PyDict(NoFields)
    ELSE params

\* A client that issues its request once more when the first attempt failed.
ClientCall_Retry(sent, t) ==
    [sent |-> IF t.path = "except" THEN sent \o sent ELSE sent,
     path |-> t.path, value |-> t.value]

\* The record of one client call: the requests it issued, the branch it
\* returned from and the value it returned.
ClientCall(sent, t) == [sent |-> sent, path |-> t.path, value |-> t.value]

\* A call of safe_get whose round trip ends as http.
safe_get(self, endpoint, params, http) ==
    LET url == self.server_url \o <<"/">> \o endpoint
    IN  ClientCall(<< [method |-> "GET", url |-> url, params |-> OrEmptyDict(params),
                       json |-> PyNone, timeout |-> self.timeout] >>,
                   TryBody(http))

\* A call of safe_post whose round trip ends as http.
safe_post(self, endpoint, json_data, http) ==
    LET url == self.server_url \o <<"/">> \o endpoint
    IN  ClientCall(<< [method |-> "POST", url |-> url, params |-> PyNone,
                       json |-> json_data, timeout |-> self.timeout] >>,
                   TryBody(http))

execute_command(self, command, http) ==
    safe_post(self, <<"api", "/", "command">>, PyDict([command |-> PyStr(command)]), http)

check_health(self, http) == safe_get(self, <<"health">>, PyNone, http)

-----------------------------------------------------------------------------
(* setup_mcp_server: the registered tools.  A tool yields the record of    *)
(* the client call it made and the value it returns to the runtime.        *)

\* The value bound to a parameter: the one supplied, or its default.
Bind(kwargs, name, default) ==
    IF name \in DOMAIN kwargs THEN kwargs[name] ELSE default

\* A handler that unwraps a failure envelope into its message.
Return_Interpreted(r) ==
    [client |-> r,
     value |-> IF r.path = "except" THEN r.value.fields["error"] ELSE r.value]

\* `return r`, r being the record of the client call: the tool's value is
\* the client's.
Return(r) == [client |-> r, value |-> r.value]

\* A handler that passes ports and additional_args in each other's place.
mcp_nmap_scan_Swapped(kali_client_, kwargs, http) ==
    LET target == kwargs["target"]
        scan_type == Bind(kwargs, "scan_type", <<"-sV">>)
        ports == Bind(kwargs, "ports", <<>>)
        additional_args == Bind(kwargs, "additional_args", <<>>)
    IN  Return(safe_post(kali_client_, <<"api", "/", "tools", "/", "nmap">>,
                         PyDict([target |-> PyStr(target),
                                 scan_type |-> PyStr(scan_type),
                                 ports |-> PyStr(additional_args),
                                 additional_args |-> PyStr(ports)]),
                         http))

mcp_nmap_scan(kali_client_, kwargs, http) ==
    LET target == kwargs["target"]
        scan_type == Bind(kwargs, "scan_type", <<"-sV">>)
        ports == Bind(kwargs, "ports", <<>>)
        additional_args == Bind(kwargs, "additional_args", <<>>)
    IN  Return(safe_post(kali_client_, <<"api", "/", "tools", "/", "nmap">>,
                         PyDict([target |-> PyStr(target),
                                 scan_type |-> PyStr(scan_type),
                                 ports |-> PyStr(ports),
                                 additional_args |-> PyStr(additional_args)]),
                         http))

mcp_execute_command(kali_client_, kwargs, http) ==
    Return(execute_command(kali_client_, kwargs["command"], http))

mcp_server_health(kali_client_, kwargs, http) ==
    Return(check_health(kali_client_, http))

ToolNames == {"nmap_scan", "execute_command", "server_health"}

\* The runtime's dispatch of a validated call to its handler.
CallTool(kali_client_, call, http) ==
    CASE call.tool = "nmap_scan" -> mcp_nmap_scan(kali_client_, call.kwargs, http)
      [] call.tool = "execute_command" -> mcp_execute_command(kali_client_, call.kwargs, http)
      [] call.tool = "server_health" -> mcp_server_health(kali_client_, call.kwargs, http)

-----------------------------------------------------------------------------
(* Inputs *)

\* The command lines main() is started with: --server and --timeout, each
\* given or not.
Argvs ==
    { [has_server |-> FALSE, server |-> <<>>, has_timeout |-> FALSE, timeout |-> 0],
      [has_server |-> TRUE, server |-> <<"http://kali:5000", "/", "/">>,
       has_timeout |-> TRUE, timeout |-> 5] }

\* parse_args(): a flag that is not given takes its default.
parse_args(argv) ==
    [server |-> IF argv.has_server THEN argv.server ELSE DEFAULT_KALI_SERVER,
     timeout |-> IF argv.has_timeout THEN argv.timeout ELSE DEFAULT_REQUEST_TIMEOUT]

OptionalNmap == [scan_type |-> <<"-sS">>, ports |-> <<"80">>, additional_args |-> <<"-T4">>]

\* nmap_scan with its target and any of the optional parameters supplied.
NmapKwargs ==
    { [k \in {"target"} \cup S |-> IF k = "target" THEN <<"10.0.0.1">> ELSE OptionalNmap[k]] :
        S \in {{}, {"ports"}, {"scan_type", "ports", "additional_args"}} }

\* The validated calls the protocol runtime delivers.
Calls ==
    { [tool |-> "nmap_scan", kwargs |-> k] : k \in NmapKwargs }
    \cup { [tool |-> "execute_command", kwargs |-> [command |-> <<"whoami">>]] }
    \cup { [tool |-> "server_health", kwargs |-> NoFields] }

-----------------------------------------------------------------------------
(* Inputs of the concurrent specification: fewer of each, more threads.    *)

ConcurrentCalls ==
    { [tool |-> "nmap_scan", kwargs |-> [target |-> <<"10.0.0.1">>]],
      [tool |-> "execute_command", kwargs |-> [command |-> <<"whoami">>]],
      [tool |-> "server_health", kwargs |-> NoFields] }

ConcurrentOutcomes ==
    { Raised("ConnectionError", << <<"Connection", "refused">> >>),
      Response(200, BodyOk), Response(200, BodyErr), Response(200, BodyCut),
      Response(404, BodyOk) }

ConcurrentProbeOutcomes ==
    { Raised("ConnectionError", << <<"Connection", "refused">> >>),
      Response(200, BodyOk) }

-----------------------------------------------------------------------------
(* State *)

\* Thread 0 is main(); the others run the tool handlers.
MainThread == 0

NoCall == [tool |-> "none", kwargs |-> NoFields]

Idle == [pc |-> "idle", call |-> NoCall, sent |-> <<>>]

NoReturn == [call |-> NoCall, sent |-> <<>>, http |-> Pending,
             path |-> "none", client_value |-> Unbound, value |-> Unbound]

\* What is observed when a call returns r: the call, its round trip, the
\* client call's record and the value handed to the caller.
Returned(call, http, r) ==
    [call |-> call, sent |-> r.client.sent, http |-> http, path |-> r.client.path,
     client_value |-> r.client.value, value |-> r.value]

NoArgs == [server |-> <<>>, timeout |-> 0]

InitWith(threads) ==
    /\ pc = "start"
    /\ args = NoArgs
    /\ kali_client = NoClient
    /\ health = Unbound
    /\ probes = 0
    /\ probe = "none"
    /\ log = <<>>
    /\ inv = [t \in {MainThread} \cup threads |-> Idle]
    /\ returned = NoReturn

-----------------------------------------------------------------------------
(* main() *)

\* Lines 88-92: parse the command line and build the client, which logs.
MainStart(argvs) ==
    /\ pc = "start"
    /\ \E argv \in argvs :
         LET a == parse_args(argv) IN
         /\ args' = a
         /\ kali_client' = KaliToolsClient(a.server, a.timeout)
         /\ log' = Append(log, [level |-> "INFO",
                                msg |-> <<"Initialized", "Kali", "Tools", "Client",
                                          "connecting", "to">> \o a.server])
    /\ pc' = "constructed"
    /\ UNCHANGED <<health, probes, probe, inv, returned>>

\* Line 94, up to the round trip: check_health() issues its request.
MainProbeSend ==
    /\ pc = "constructed"
    /\ inv' = [inv EXCEPT ![MainThread] =
                  [pc |-> "waiting",
                   call |-> [tool |-> "check_health", kwargs |-> NoFields],
                   sent |-> check_health(kali_client, Pending).sent]]
    /\ probes' = probes + 1
    /\ pc' = "probing"
    /\ UNCHANGED <<args, kali_client, health, probe, log, returned>>

\* Line 94, from the round trip on: check_health() returns into `health`.
MainProbeReturn(outcomes) ==
    /\ pc = "probing"
    /\ \E http \in outcomes :
         /\ returned' = Returned(inv[MainThread].call, http,
                                 Return(check_health(kali_client, http)))
         /\ health' = returned'.value
         /\ probe' = returned'.path
    /\ inv' = [inv EXCEPT ![MainThread] = Idle]
    /\ pc' = "checked"
    /\ UNCHANGED <<args, kali_client, probes, log>>

\* A main() that gives up when the probe reports an error.
MainWarn_Fatal ==
    /\ pc = "checked"
    /\ LET c == PyContains("error", health)
       IN  IF c.raises \/ c.value THEN pc' = "crashed" ELSE pc' = "setup"
    /\ UNCHANGED <<args, kali_client, health, probes, probe, log, inv, returned>>

\* Lines 95-96:  if "error" in health: logger.warning(... health['error'])
\* Either expression may raise, which ends main().
MainWarn ==
    /\ pc = "checked"
    /\ LET c == PyContains("error", health)
           g == PyGetItem(health, "error")
       IN  IF c.raises THEN pc' = "crashed" /\ log' = log
           ELSE IF ~c.value THEN pc' = "setup" /\ log' = log
           ELSE IF g.raises THEN pc' = "crashed" /\ log' = log
           ELSE /\ pc' = "setup"
                /\ log' = Append(log, [level |-> "WARNING",
                                       msg |-> <<"Cannot", "reach", "Kali", "API",
                                                 "server", "at">> \o args.server
                                               \o <<":">> \o g.value.text])
    /\ UNCHANGED <<args, kali_client, health, probes, probe, inv, returned>>

\* Lines 98-99: register the tools and enter the serving loop.  `health` is
\* not read again and is forgotten here.
MainServe ==
    /\ pc = "setup"
    /\ pc' = "serving"
    /\ health' = Unbound
    /\ UNCHANGED <<args, kali_client, probes, probe, log, inv, returned>>

-----------------------------------------------------------------------------
(* Tool invocations, while mcp.run() serves *)

\* The runtime calls a tool handler, which runs up to its round trip.
Invoke(t, calls) ==
    /\ pc = "serving"
    /\ inv[t].pc = "idle"
    /\ \E call \in calls :
         inv' = [inv EXCEPT ![t] =
                    [pc |-> "waiting", call |-> call,
                     sent |-> CallTool(kali_client, call, Pending).client.sent]]
    /\ UNCHANGED <<pc, args, kali_client, health, probes, probe, log, returned>>

\* The round trip ends and the handler returns to the runtime.
Complete(t, outcomes) ==
    /\ pc = "serving"
    /\ inv[t].pc = "waiting"
    /\ \E http \in outcomes :
         returned' = Returned(inv[t].call, http, CallTool(kali_client, inv[t].call, http))
    /\ inv' = [inv EXCEPT ![t] = Idle]
    /\ UNCHANGED <<pc, args, kali_client, health, probes, probe, log>>

-----------------------------------------------------------------------------
(* Specifications *)

\* The runtime delivers one invocation at a time.
Init == InitWith({1})

Next ==
    \/ MainStart(Argvs)
    \/ MainProbeSend
    \/ MainProbeReturn(HttpOutcomes)
    \/ MainWarn
    \/ MainServe
    \/ Invoke(1, Calls)
    \/ Complete(1, HttpOutcomes)

Spec == Init /\ [][Next]_vars

\* The runtime delivers invocations concurrently.
Threads == 1..NumThreads

InitConcurrent == InitWith(Threads)

NextConcurrent ==
    \/ MainStart(Argvs)
    \/ MainProbeSend
    \/ MainProbeReturn(ConcurrentProbeOutcomes)
    \/ MainWarn
    \/ MainServe
    \/ \E t \in Threads : Invoke(t, ConcurrentCalls)
    \/ \E t \in Threads : Complete(t, ConcurrentOutcomes)

SpecConcurrent == InitConcurrent /\ [][NextConcurrent]_vars

-----------------------------------------------------------------------------
(* Properties *)

\* The failure form: a dict with exactly the keys error and success, success
\* False and error a str.
IsFailureForm(v) ==
    /\ v.type = "dict"
    /\ DOMAIN v.fields = {"error", "success"}
    /\ v.fields["success"] = PyFalse
    /\ v.fields["error"].type = "str"

\* What each well-formed body of the model spells, written out.
ExpectedDecoding ==
    (BodyOk :> PyDict([status |-> PyStr(<<"ok">>)]))
    @@ (BodyErr :> PyDict([error |-> PyStr(<<"boom">>), success |-> PyTrue]))
    @@ (BodyList :> PyList(<< PyStr(<<"error">>) >>))
    @@ (BodyStr :> PyStr(<<"disk", "error">>))
    @@ (BodyNum :> PyInt("7"))
    @@ (BodyNull :> PyNone)

\* The round trip of the last return was answered 2xx with a well-formed body.
AnsweredWellFormed ==
    /\ returned.path # "none"
    /\ ~returned.http.raised
    /\ Is2xx(returned.http.status)
    /\ returned.http.body \in DOMAIN ExpectedDecoding

HasWarning == \E i \in 1..Len(log) : log[i].level = "WARNING"

\* The path each tool's request goes to.
EndpointOf(tool) ==
    CASE tool = "nmap_scan" -> <<"api", "/", "tools", "/", "nmap">>
      [] tool = "execute_command" -> <<"api", "/", "command">>
      [] OTHER -> <<"health">>

\* The one request designated for a call, written out per tool.
ExpectedRequest(call) ==
    CASE call.tool = "nmap_scan" ->
            [method |-> "POST",
             url |-> kali_client.server_url \o <<"/", "api", "/", "tools", "/", "nmap">>,
             params |-> PyNone,
             json |-> PyDict(
                 [target |-> PyStr(call.kwargs["target"]),
                  scan_type |-> PyStr(IF "scan_type" \in DOMAIN call.kwargs
                                      THEN call.kwargs["scan_type"] ELSE <<"-sV">>),
                  ports |-> PyStr(IF "ports" \in DOMAIN call.kwargs
                                  THEN call.kwargs["ports"] ELSE <<>>),
                  additional_args |-> PyStr(IF "additional_args" \in DOMAIN call.kwargs
                                            THEN call.kwargs["additional_args"] ELSE <<>>)]),
             timeout |-> kali_client.timeout]
      [] call.tool = "execute_command" ->
            [method |-> "POST",
             url |-> kali_client.server_url \o <<"/", "api", "/", "command">>,
             params |-> PyNone,
             json |-> PyDict([command |-> PyStr(call.kwargs["command"])]),
             timeout |-> kali_client.timeout]
      [] OTHER ->
            [method |-> "GET",
             url |-> kali_client.server_url \o <<"/", "health">>,
             params |-> PyDict(NoFields),
             json |-> PyNone,
             timeout |-> kali_client.timeout]

\* C1: every tool invocation and every safe_get / safe_post call, whatever
\* the outcome of the round trip, returns a Result Envelope (the decoded
\* body, or the dict {error, success: False}) and never ends in a raised
\* fault.
C1_AlwaysEnvelope ==
    returned.path # "none" =>
        /\ returned.path \in {"return", "except"}
        /\ returned.path = "return" =>
               /\ JsonLoads(returned.http.body).ok
               /\ returned.value = JsonLoads(returned.http.body).value
        /\ returned.path = "except" => IsFailureForm(returned.value)

\* A tool call whose round trip was answered 200 with a body cut short.
C1_Witness ==
    /\ returned.call.tool = "execute_command"
    /\ returned.http = Response(200, BodyCut)
    /\ returned.path = "except"
    /\ IsFailureForm(returned.value)

\* C2: every response whose status is outside 200-299 (1xx and 3xx as well
\* as 4xx and 5xx) yields the failure envelope, whatever its body.
C2_Non2xxIsFailure ==
    (returned.path # "none" /\ ~returned.http.raised /\ ~Is2xx(returned.http.status))
        => (returned.path = "except" /\ IsFailureForm(returned.client_value))

\* C3: when the remote service answers 2xx with a well-formed JSON body,
\* safe_get and safe_post return exactly the decoded body, also when the body
\* has an "error" or a "success" field of its own.
C3_BodyUnchanged ==
    AnsweredWellFormed =>
        /\ returned.path = "return"
        /\ returned.client_value = ExpectedDecoding[returned.http.body]

\* safe_post returned a body that carries "error" and "success": true.
C3_Witness ==
    /\ returned.call.tool = "nmap_scan"
    /\ returned.http = Response(200, BodyErr)
    /\ returned.client_value =
           PyDict([error |-> PyStr(<<"boom">>), success |-> PyTrue])

\* C4: whenever safe_get or safe_post returns the failure form, it is a dict
\* with exactly the keys error and success, success False and error a
\* non-empty string, for every cause of failure.
C4_FailureForm ==
    returned.path = "except" =>
        /\ IsFailureForm(returned.client_value)
        /\ returned.client_value.fields["error"].text # <<>>

C6_ToolRequests ==
    /\ \A t \in DOMAIN inv :
           inv[t].pc = "waiting" => inv[t].sent = << ExpectedRequest(inv[t].call) >>
    /\ returned.path # "none" => returned.sent = << ExpectedRequest(returned.call) >>

\* nmap_scan is in progress with only its target supplied.
C6_Witness ==
    /\ inv[1].pc = "waiting"
    /\ inv[1].call.tool = "nmap_scan"
    /\ DOMAIN inv[1].call.kwargs = {"target"}
    /\ inv[1].sent[1].json.fields["scan_type"] = PyStr(<<"-sV">>)
    /\ inv[1].sent[1].json.fields["ports"] = PyStr(<<>>)

\* C7: the value a tool hands to the protocol runtime is the value the
\* client call under it returned, for every tool and every outcome.
C7_PassThrough ==
    returned.call.tool \in ToolNames => returned.value = returned.client_value

\* A tool handed on a failure envelope.
C7_Witness ==
    /\ returned.call.tool = "nmap_scan"
    /\ returned.path = "except"
    /\ returned.value = PyDict([error |-> PyStr(<<"Connection", "refused">>),
                                success |-> PyFalse])

\* C8: main() calls check_health() exactly once, and the call has returned
\* before the serving loop is entered; a probe that reports failure logs a
\* warning and main() goes on into the serving loop, where a tool invocation
\* that finds the remote service reachable returns its body.
C8_StartupProbe ==
    /\ probes = (IF pc \in {"start", "constructed"} THEN 0 ELSE 1)
    /\ pc \in {"checked", "setup", "serving", "crashed"} =>
           inv[MainThread] = Idle /\ probe \in {"except", "return"}
    /\ probe = "except" => pc # "crashed"
    /\ (probe = "except" /\ pc = "checked") => ENABLED MainWarn
    /\ (probe = "except" /\ pc \in {"setup", "serving"}) => HasWarning
    /\ pc = "setup" => ENABLED MainServe
    /\ (pc = "serving" /\ probe = "except" /\ returned.call.tool \in ToolNames
            /\ AnsweredWellFormed) =>
           /\ returned.path = "return"
           /\ returned.value = ExpectedDecoding[returned.http.body]

\* The probe failed, and a later tool call returned the service's answer.
C8_Witness ==
    /\ pc = "serving"
    /\ probe = "except"
    /\ HasWarning
    /\ returned.call.tool = "execute_command"
    /\ returned.http = Response(200, BodyOk)
    /\ returned.value = PyDict([status |-> PyStr(<<"ok">>)])

\* base is given without its trailing slashes.
IsStrippedOf(base, given) ==
    /\ Len(base) = 0 \/ base[Len(base)] # "/"
    /\ Len(base) <= Len(given)
    /\ SubSeq(given, 1, Len(base)) = base
    /\ \A i \in (Len(base) + 1)..Len(given) : given[i] = "/"

\* The call run alone, from the command line's configuration.
SoloRun(call, http) == CallTool(KaliToolsClient(args.server, args.timeout), call, http)

C9_State ==
    /\ pc # "start" =>
           /\ IsStrippedOf(kali_client.server_url, args.server)
           /\ kali_client.timeout = args.timeout
    /\ \A t \in DOMAIN inv :
           inv[t].pc = "waiting" =>
               /\ Len(inv[t].sent) = 1
               /\ inv[t].sent[1].url =
                      kali_client.server_url \o <<"/">> \o EndpointOf(inv[t].call.tool)
               /\ inv[t].sent[1].timeout = args.timeout

C9_Step ==
    /\ pc # "start" => (kali_client' = kali_client /\ args' = args)
    /\ \A t \in DOMAIN inv :
           (inv[t].pc = "waiting" /\ inv'[t].pc = "waiting") => inv'[t] = inv[t]
    /\ \A t \in Threads :
           (inv[t].pc = "waiting" /\ inv'[t].pc = "idle") =>
               returned' = Returned(inv[t].call, returned'.http,
                                    SoloRun(inv[t].call, returned'.http))

\* C9: the configuration (the base URL without its trailing slashes, the
\* timeout) is set by the constructor and never changes afterwards; under
\* every interleaving of concurrent invocations each one's request target and
\* result are those of the same call run alone.
C9_Isolated == []C9_State /\ [][C9_Step]_vars

\* Two different calls are in progress at once, on a stripped base URL.
C9_Witness ==
    /\ inv[1].pc = "waiting"
    /\ inv[2].pc = "waiting"
    /\ inv[1].call.tool # inv[2].call.tool
    /\ args.server # kali_client.server_url
    /\ returned.call.tool \in ToolNames

\* C10: whatever the startup probe returns (the failure envelope, or a
\* decoded body of any JSON shape) main() reaches the serving loop without
\* raising, and the warning is logged only when the probe failed.
C10_ProbeAnyShape ==
    /\ pc # "crashed"
    /\ HasWarning => probe = "except"

=============================================================================
